---- MODULE Spec2Model ----
(***************************************************************************)
(* Model of openai.Chat (src/openai/chat.go): a request builder shared by  *)
(* several goroutines.  The session state is the sync.Map `data`, the      *)
(* atomic.Value `key` and the sync.RWMutex `mutex`; every goroutine is a   *)
(* thread with a program counter and the locals of the method it runs.     *)
(* One action is one atomic access to the shared state, together with the  *)
(* local computation that follows it up to the next shared access.         *)
(***************************************************************************)
EXTENDS Integers, Sequences, FiniteSets, TLC

(* ------------------------------ bounds -------------------------------- *)

\* Number of API calls issued on the session, over all goroutines.
MaxCalls == 3

\* Largest number of choices a decoded response carries.
MaxChoices == 3

Threads == {1, 2}

Contents == {"X", "Y"}

Roles == {"user", "system", "assistant"}

(* ------------------------------ values -------------------------------- *)

\* atomic.Value before any Store: Load returns the nil interface.
NilKey == "<nil>"

Credentials == {"sk-A"}

\* A float64 json.Marshal refuses (NaN, +Inf, -Inf).
NaN == "NaN"

Temperatures == {"0.7", NaN}

NoErr == "<nil>"

ErrNoResponse == "no response"

ErrEncoding == "json: unsupported value"

ErrTransport == "transport error"

ErrBodyRead == "body read error"

ErrDecoding == "json: cannot unmarshal"

ErrPanic == "panic: interface conversion"

Message(role, content) == [role |-> role, content |-> content]

\* k choices whose contents alternate ("X", "Y", "X", ...): the order of
\* the choices is visible in the contents.
AltContents(k) == [i \in 1..k |-> IF i % 2 = 1 THEN "X" ELSE "Y"]

\* The choices lists a response may carry: one of each length.
ChoiceLists == {AltContents(k) : k \in 0..MaxChoices}

\* A decoded ChatResponse, reduced to its Choices: a nil slice (the key is
\* absent or null in the body) or a slice of message contents.
Response(isNil, contents) == [nilChoices |-> isNil, choices |-> contents]

Responses ==
    {Response(TRUE, <<>>)} \cup {Response(FALSE, cs) : cs \in ChoiceLists}

NoResponseYet == Response(TRUE, <<>>)

\* What a call hands back to its caller: the method, its error, and the
\* *ChatResponse (hasRes is FALSE for a nil pointer).
Result(op, err, hasRes, r) ==
    [op |-> op, err |-> err, hasRes |-> hasRes, res |-> r, texts |-> <<>>]

Returned(op) == Result(op, NoErr, FALSE, NoResponseYet)

Failed(op, err) == Result(op, err, FALSE, NoResponseYet)

NoResult == Returned("none")

AllMessages == {Message(r, c) : r \in Roles, c \in Contents}

(* ---------------------------- sync.Map -------------------------------- *)

\* sync.Map as a function whose domain is the set of stored keys.
EmptyMap == [k \in {} |-> TRUE]

Loaded(m, k) == k \in DOMAIN m

Store(m, k, v) == [x \in DOMAIN m \cup {k} |-> IF x = k THEN v ELSE m[x]]

(* ------------------------------ state --------------------------------- *)

VARIABLES
    data,       \* Chat.data
    key,        \* Chat.key
    readers,    \* Chat.mutex: number of read locks held
    writer,     \* Chat.mutex: TRUE while the write lock is held
    pc,         \* per goroutine: where it stands
    arg,        \* per goroutine: role and content of the running addMessage
    caller,     \* per goroutine: who called addMessage ("api" or "fold")
    messages,   \* per goroutine: addMessage's local `messages`
    mapVal,     \* per goroutine: NewChat's local `mapVal`
    snap,       \* per goroutine: Chat.data when NewChat's Range began
    res,        \* per goroutine: NewChat's local `res`
    index,      \* per goroutine: NewChat's loop variable `index`
    ret,        \* per goroutine: what its last call returned
    calls,      \* number of API calls issued so far
    owed,       \* messages the returned calls put into the history
    heap,       \* the backing arrays of the slices stored under "messages"
    view,       \* per goroutine: the slice GetHistoryMessages gave it last
    outer,      \* per goroutine: the method that called NewChat
    touched     \* the slots a method that stores into them was called for

vars == <<data, key, readers, writer, pc, arg, caller, messages, mapVal,
          snap, res, index, ret, calls, owed, heap, view, outer, touched>>

shared == <<data, key, readers, writer>>

NoArg == Message("", "")

(* ------------------------------ slices -------------------------------- *)

\* The capacity Go's append gives a slice that grows one element at a time
\* from the empty slice: the least power of two that holds n elements.
RECURSIVE CapFrom(_, _)
CapFrom(c, n) == IF c >= n THEN c ELSE CapFrom(c + c, n)

CapFor(n) == CapFrom(1, n)

\* The capacities of the backing arrays a history of the model can need.
Caps == {CapFor(n) : n \in 1..(MaxCalls * (MaxChoices + 1))}

\* A slice of length n built that way lies in the array of capacity
\* CapFor(n); the heap holds, per array, the cells written so far.
NoHeap == [c \in Caps |-> <<>>]

\* The elements a slice header of length n shows.
Elements(h, n) == IF n = 0 THEN <<>> ELSE SubSeq(h[CapFor(n)], 1, n)

\* Writing cell i (counted from 1) of an array.
WriteCell(cells, i, m) ==
    [j \in 1..(IF Len(cells) > i THEN Len(cells) ELSE i) |->
        IF j = i THEN m ELSE cells[j]]

\* No slice yet, as GetHistoryMessages has not returned one.
NoView == [held |-> FALSE, len |-> 0]

Init ==
    /\ data = EmptyMap
    /\ key = NilKey
    /\ readers = 0
    /\ writer = FALSE
    /\ pc = [t \in Threads |-> "idle"]
    /\ arg = [t \in Threads |-> NoArg]
    /\ caller = [t \in Threads |-> "api"]
    /\ messages = [t \in Threads |-> <<>>]
    /\ mapVal = [t \in Threads |-> EmptyMap]
    /\ snap = [t \in Threads |-> EmptyMap]
    /\ res = [t \in Threads |-> NoResponseYet]
    /\ index = [t \in Threads |-> 0]
    /\ ret = [t \in Threads |-> NoResult]
    /\ calls = 0
    /\ owed = [m \in AllMessages |-> 0]
    /\ heap = NoHeap
    /\ view = [t \in Threads |-> NoView]
    /\ outer = [t \in Threads |-> "none"]
    /\ touched = {}

CanCall(t) == pc[t] = "idle" /\ calls < MaxCalls

\* The message history as a sequence: empty while "messages" is not stored.
HistOf(m) == IF Loaded(m, "messages") THEN m["messages"] ELSE <<>>

Hist == HistOf(data)

(* --------------------------- sync.RWMutex ----------------------------- *)

\* Lock() that excludes nobody, as if addMessage took no exclusive lock.
CanLockShared == TRUE

\* Lock() goes through when no reader and no writer holds the mutex.
CanLock == readers = 0 /\ ~writer

\* RLock() that waits for nobody.
CanRLockAlways == TRUE

\* RLock() goes through when no writer holds the mutex.  (A writer that
\* waits makes later RLock calls wait too; a reader can still get in just
\* before the writer announces itself, so the same states are reached.)
CanRLock == ~writer

(* ---------------------------- returning ------------------------------- *)

\* The goroutine leaves the method it runs: its locals are gone.
Leave(t, result) ==
    /\ pc' = [pc EXCEPT ![t] =
                IF outer[t] = "NewChatText" THEN "nct_ret" ELSE "idle"]
    /\ ret' = [ret EXCEPT ![t] = result]
    /\ arg' = [arg EXCEPT ![t] = NoArg]
    /\ caller' = [caller EXCEPT ![t] = "api"]
    /\ messages' = [messages EXCEPT ![t] = <<>>]
    /\ mapVal' = [mapVal EXCEPT ![t] = EmptyMap]
    /\ snap' = [snap EXCEPT ![t] = EmptyMap]
    /\ res' = [res EXCEPT ![t] = NoResponseYet]
    /\ index' = [index EXCEPT ![t] = 0]

locals == <<arg, caller, messages, mapVal, snap, res, index>>

Owe(bag, ms) ==
    [m \in AllMessages |->
        bag[m] + Cardinality({i \in 1..Len(ms) : ms[i] = m})]

(* ---------------------------- addMessage ------------------------------ *)

\* An append that drops a message equal to the last one.
AppendMessageDedup(msgs, m) ==
    IF Len(msgs) > 0 /\ msgs[Len(msgs)] = m THEN msgs ELSE Append(msgs, m)

\* An append that keeps the two latest messages only.
AppendMessageCapped(msgs, m) ==
    IF Len(msgs) >= 2 THEN Append(Tail(msgs), m) ELSE Append(msgs, m)

\* An append that puts the message in front.
AppendMessageFront(msgs, m) == <<m>> \o msgs

\* The slice addMessage stores back.
AppendMessage(msgs, m) == Append(msgs, m)

\* An append that shifts the elements of the array it writes to.
GoAppendShift(h, n, m) ==
    [h EXCEPT ![CapFor(n + 1)] = <<m>> \o Elements(h, n)]

\* What append does to the backing arrays, for a slice of length n: with
\* room left it writes the next cell of the slice's array in place, else it
\* copies the n elements into a new array of twice the capacity and writes
\* the next cell there.
GoAppend(h, n, m) ==
    IF n > 0 /\ n < CapFor(n)
    THEN [h EXCEPT ![CapFor(n)] = WriteCell(h[CapFor(n)], n + 1, m)]
    ELSE [h EXCEPT ![CapFor(n + 1)] = Append(Elements(h, n), m)]

\* c.mutex.Lock() on entry to addMessage(role, content).
EnterAddMessage(t, role, content, from) ==
    /\ CanLock
    /\ writer' = TRUE
    /\ pc' = [pc EXCEPT ![t] = "am_load"]
    /\ arg' = [arg EXCEPT ![t] = Message(role, content)]
    /\ caller' = [caller EXCEPT ![t] = from]
    /\ touched' = touched \cup {"messages"}
    /\ UNCHANGED <<data, key, readers, messages, mapVal, snap, res, owed,
                   heap, view, outer>>

CallAddMessage(t, role) ==
    /\ CanCall(t)
    /\ \E content \in Contents : EnterAddMessage(t, role, content, "api")
    /\ calls' = calls + 1
    /\ ret' = [ret EXCEPT ![t] = NoResult]
    /\ UNCHANGED index

AddMessageAsUser(t) == CallAddMessage(t, "user")

AddMessageAsSystem(t) == CallAddMessage(t, "system")

AddMessageAsAssistant(t) == CallAddMessage(t, "assistant")

\* Store the empty slice when "messages" is missing, then load the slice.
AM_Load(t) ==
    /\ pc[t] = "am_load"
    /\ data' = IF Loaded(data, "messages") THEN data
                ELSE Store(data, "messages", <<>>)
    /\ messages' = [messages EXCEPT ![t] = HistOf(data)]
    /\ pc' = [pc EXCEPT ![t] = "am_store"]
    /\ UNCHANGED <<key, readers, writer, arg, caller, mapVal, snap, res,
                   index, ret, calls, owed, heap, view, outer, touched>>

\* append, c.data.Store("messages", messages), the deferred
\* c.mutex.Unlock() and the return to the caller.
AM_Store(t) ==
    /\ pc[t] = "am_store"
    /\ data' = Store(data, "messages", AppendMessage(messages[t], arg[t]))
    /\ heap' = GoAppend(heap, Len(messages[t]), arg[t])
    /\ writer' = FALSE
    /\ \/ /\ caller[t] = "api"
          /\ Leave(t, Returned("addMessage"))
          /\ owed' = Owe(owed, <<arg[t]>>)
       \/ /\ caller[t] = "fold"
          /\ pc' = [pc EXCEPT ![t] = "nc_fold"]
          /\ index' = [index EXCEPT ![t] = index[t] + 1]
          /\ arg' = [arg EXCEPT ![t] = NoArg]
          /\ caller' = [caller EXCEPT ![t] = "api"]
          /\ messages' = [messages EXCEPT ![t] = <<>>]
          /\ UNCHANGED <<mapVal, snap, res, ret, owed>>
    /\ UNCHANGED <<key, readers, calls, view, outer, touched>>

(* ------------------------------ setters ------------------------------- *)

\* c.data.Store(slot, value): one atomic store, under no lock.
SetSlot(t, slot, value) ==
    /\ CanCall(t)
    /\ data' = Store(data, slot, value)
    /\ calls' = calls + 1
    /\ ret' = [ret EXCEPT ![t] = Returned("set")]
    /\ touched' = touched \cup {slot}
    /\ UNCHANGED <<key, readers, writer, pc, locals, owed, heap, view, outer>>

SetTemperature(t) == \E v \in Temperatures : SetSlot(t, "temperature", v)

SetTopP(t) == SetSlot(t, "top_p", "0.9")

SetN(t) == SetSlot(t, "n", 2)

SetStream(t) == SetSlot(t, "stream", TRUE)

\* The stop slot holds a string or a list of strings: the first element
\* of the value tells which.
SetStopStr(t) == SetSlot(t, "stop", <<"string", "s">>)

SetStopArr(t) == SetSlot(t, "stop", <<"array", "s", "t">>)

SetMaxTokens(t) == SetSlot(t, "max_tokens", 16)

SetPresencePenalty(t) == SetSlot(t, "presence_penalty", "0.5")

\* A setter that stores under the name of another parameter.
SetFrequencyPenaltyElsewhere(t) == SetSlot(t, "presence_penalty", "-0.5")

SetFrequencyPenalty(t) == SetSlot(t, "frequency_penalty", "-0.5")

SetLogitBias(t) == SetSlot(t, "logit_bias", <<"50256", -100>>)

SetUser(t) == SetSlot(t, "user", "u1")

ModelName == "gpt-3.5-turbo"

\* c.key.Store(key): the first of SetAuthorizationKey's two stores.
SetAuthorizationKey(t) ==
    /\ CanCall(t)
    /\ \E k \in Credentials : key' = k
    /\ pc' = [pc EXCEPT ![t] = "sak_model"]
    /\ calls' = calls + 1
    /\ ret' = [ret EXCEPT ![t] = NoResult]
    /\ touched' = touched \cup {"model"}
    /\ UNCHANGED <<data, readers, writer, locals, owed, heap, view, outer>>

\* c.data.Store("model", "gpt-3.5-turbo"), and the return.
SAK_Model(t) ==
    /\ pc[t] = "sak_model"
    /\ data' = Store(data, "model", ModelName)
    /\ Leave(t, Returned("SetAuthorizationKey"))
    /\ UNCHANGED <<key, readers, writer, calls, owed, heap, view, outer,
                   touched>>

(* ------------------------------ NewChat ------------------------------- *)

FloatSlots == {"temperature", "top_p", "presence_penalty", "frequency_penalty"}

\* json.Marshal(mapVal) fails on a float that JSON cannot express.
MarshalFails(m) == \E k \in FloatSlots \cap DOMAIN m : m[k] = NaN

\* res.Choices == nil
ChoicesNil(r) == r.nilChoices

\* The loop appending the first choice in every round.
FoldMessageFirst(r, i) == Message("assistant", r.choices[1])

\* The message the loop appends for the choice at `i` (counted from 0).
FoldMessage(r, i) == Message("assistant", r.choices[i + 1])

\* The check of the choices placed after the loop: an error after appends.
FoldResultError(r) == Failed("NewChat", ErrNoResponse)

\* What NewChat returns after its loop.
FoldResult(r) == Result("NewChat", NoErr, TRUE, r)

\* c.mutex.RLock(), and the start of c.data.Range.
EnterNewChat(t) ==
    /\ CanCall(t)
    /\ CanRLock
    /\ readers' = readers + 1
    /\ snap' = [snap EXCEPT ![t] = data]
    /\ pc' = [pc EXCEPT ![t] = "nc_range"]
    /\ calls' = calls + 1
    /\ ret' = [ret EXCEPT ![t] = NoResult]
    /\ UNCHANGED <<data, key, writer, arg, caller, messages, mapVal, res,
                   index, owed, heap, view, touched>>

NewChat(t) == EnterNewChat(t) /\ UNCHANGED outer

\* NewChatText begins with its call of NewChat.
NewChatText(t) ==
    /\ EnterNewChat(t)
    /\ outer' = [outer EXCEPT ![t] = "NewChatText"]

\* Range hands one more key to the callback, with the value the key has
\* now.  Range visits no key twice, in no particular order.
NC_Range(t) ==
    /\ pc[t] = "nc_range"
    /\ \E k \in DOMAIN data \ DOMAIN mapVal[t] :
          mapVal' = [mapVal EXCEPT ![t] = Store(mapVal[t], k, data[k])]
    /\ UNCHANGED <<shared, pc, arg, caller, messages, snap, res, index, ret,
                   calls, owed, heap, view, outer, touched>>

\* A Range that may end before it has visited every key.
RangeDoneEarly(t) == TRUE

\* Range has visited every key that was stored when it began.
RangeDone(t) == DOMAIN snap[t] \subseteq DOMAIN mapVal[t]

\* Range ends, having visited at least the keys stored when it began (a key
\* stored during the Range may have been missed).  Then json.Marshal, which
\* may fail, http.NewRequest, which cannot (the method and the URL are
\* constants), and c.key.Load().(string), which panics on the nil interface
\* of a key never stored.  The request is then ready for the transport.
NC_Marshal(t) ==
    /\ pc[t] = "nc_range"
    /\ RangeDone(t)
    /\ \/ /\ MarshalFails(mapVal[t])
          /\ Leave(t, Failed("NewChat", ErrEncoding))
       \/ /\ ~MarshalFails(mapVal[t])
          /\ key = NilKey
          /\ pc' = [pc EXCEPT ![t] = "panic"]
          /\ ret' = [ret EXCEPT ![t] = Failed("NewChat", ErrPanic)]
          /\ UNCHANGED locals
       \/ /\ ~MarshalFails(mapVal[t])
          /\ key # NilKey
          /\ pc' = [pc EXCEPT ![t] = "nc_do"]
          /\ UNCHANGED <<locals, ret>>
    /\ UNCHANGED <<shared, calls, owed, heap, view, outer, touched>>

\* client.Do(req), io.ReadAll(resp.Body) and json.Unmarshal(body, &res):
\* each may fail; none touches the session.
NC_RoundTrip(t) ==
    /\ pc[t] = "nc_do"
    /\ \/ Leave(t, Failed("NewChat", ErrTransport))
       \/ Leave(t, Failed("NewChat", ErrBodyRead))
       \/ Leave(t, Failed("NewChat", ErrDecoding))
       \/ /\ \E r \in Responses : res' = [res EXCEPT ![t] = r]
          /\ pc' = [pc EXCEPT ![t] = "nc_runlock"]
          /\ mapVal' = [mapVal EXCEPT ![t] = EmptyMap]
          /\ UNCHANGED <<arg, caller, messages, snap, index, ret>>
    /\ UNCHANGED <<shared, calls, owed, heap, view, outer, touched>>

\* c.mutex.RUnlock(), then the check of res.Choices.
NC_RUnlock(t) ==
    /\ pc[t] = "nc_runlock"
    /\ readers' = readers - 1
    /\ \/ /\ ChoicesNil(res[t])
          /\ Leave(t, Failed("NewChat", ErrNoResponse))
       \/ /\ ~ChoicesNil(res[t])
          /\ pc' = [pc EXCEPT ![t] = "nc_fold"]
          /\ UNCHANGED <<locals, ret>>
    /\ UNCHANGED <<data, key, writer, calls, owed, heap, view, outer, touched>>

\* One round of the loop: c.AddMessageAsAssistant(res.Choices[index]...).
NC_Fold(t) ==
    /\ pc[t] = "nc_fold"
    /\ index[t] < Len(res[t].choices)
    /\ EnterAddMessage(t, "assistant", FoldMessage(res[t], index[t]).content,
                       "fold")
    /\ UNCHANGED <<index, ret, calls>>

\* The loop is over: return res, nil.
NC_Return(t) ==
    /\ pc[t] = "nc_fold"
    /\ index[t] = Len(res[t].choices)
    /\ owed' = Owe(owed, [i \in 1..Len(res[t].choices) |->
                            FoldMessage(res[t], i - 1)])
    /\ Leave(t, FoldResult(res[t]))
    /\ UNCHANGED <<shared, calls, heap, view, outer, touched>>

(* ---------------------------- NewChatText ----------------------------- *)

\* The contents of the choices, last choice first.
TextsReversed(r) ==
    [i \in 1..Len(r.choices) |-> r.choices[Len(r.choices) + 1 - i]]

\* The contents of the choices, in their order.
Texts(r) == [i \in 1..Len(r.choices) |-> r.choices[i]]

\* What NewChatText makes of what NewChat returned.
TextResult(got) ==
    [op |-> "NewChatText", err |-> got.err, hasRes |-> FALSE,
     res |-> NoResponseYet,
     texts |-> IF got.err = NoErr THEN Texts(got.res) ELSE <<>>]

\* NewChat has returned to NewChatText, which returns the error or collects
\* the contents.
NCT_Return(t) ==
    /\ pc[t] = "nct_ret"
    /\ pc' = [pc EXCEPT ![t] = "idle"]
    /\ ret' = [ret EXCEPT ![t] = TextResult(ret[t])]
    /\ outer' = [outer EXCEPT ![t] = "none"]
    /\ UNCHANGED <<shared, locals, calls, owed, heap, view, touched>>

(* ------------------------- GetHistoryMessages ------------------------- *)

\* The call of GetHistoryMessages, which takes no lock.
GetHistoryMessages(t) ==
    /\ CanCall(t)
    /\ calls' = calls + 1
    /\ pc' = [pc EXCEPT ![t] = "ghm_load"]
    /\ ret' = [ret EXCEPT ![t] = NoResult]
    /\ UNCHANGED <<shared, locals, owed, heap, view, outer, touched>>

\* c.data.Load("messages") and val.([]map[string]string): the assertion
\* panics on the nil interface Load returns for a key never stored.  The
\* caller gets the stored slice itself: its length, over the same array.
GHM_Load(t) ==
    /\ pc[t] = "ghm_load"
    /\ \/ /\ ~Loaded(data, "messages")
          /\ pc' = [pc EXCEPT ![t] = "panic"]
          /\ ret' = [ret EXCEPT ![t] = Failed("GetHistoryMessages", ErrPanic)]
          /\ UNCHANGED view
       \/ /\ Loaded(data, "messages")
          /\ view' = [view EXCEPT ![t] =
                        [held |-> TRUE, len |-> Len(data["messages"])]]
          /\ pc' = [pc EXCEPT ![t] = "idle"]
          /\ ret' = [ret EXCEPT ![t] = Returned("GetHistoryMessages")]
    /\ UNCHANGED <<shared, locals, calls, owed, heap, outer, touched>>

(* --------------------------- specification ---------------------------- *)

\* One step of goroutine t.
Step(t) ==
    \/ SetAuthorizationKey(t)
    \/ SAK_Model(t)
    \/ AddMessageAsUser(t)
    \/ AddMessageAsSystem(t)
    \/ AddMessageAsAssistant(t)
    \/ AM_Load(t)
    \/ AM_Store(t)
    \/ SetTemperature(t)
    \/ SetTopP(t)
    \/ SetN(t)
    \/ SetStream(t)
    \/ SetStopStr(t)
    \/ SetStopArr(t)
    \/ SetMaxTokens(t)
    \/ SetPresencePenalty(t)
    \/ SetFrequencyPenalty(t)
    \/ SetLogitBias(t)
    \/ SetUser(t)
    \/ NewChat(t)
    \/ NC_Range(t)
    \/ NC_Marshal(t)
    \/ NC_RoundTrip(t)
    \/ NC_RUnlock(t)
    \/ NC_Fold(t)
    \/ NC_Return(t)

\* Any number of goroutines call the session concurrently.
Next == \E t \in Threads : Step(t)

Spec == Init /\ [][Next]_vars

\* No other goroutine is inside a call.
Quiet(t) == \A u \in Threads \ {t} : pc[u] \in {"idle", "panic"}

\* The calls follow one another: a goroutine moves only while no other
\* caller is active.
NextSeq == \E t \in Threads : Quiet(t) /\ Step(t)

SpecSeq == Init /\ [][NextSeq]_vars

\* The goroutines only append messages.
NextAppend ==
    \E t \in Threads :
        \/ AddMessageAsUser(t)
        \/ AddMessageAsSystem(t)
        \/ AddMessageAsAssistant(t)
        \/ AM_Load(t)
        \/ AM_Store(t)

SpecAppend == Init /\ [][NextAppend]_vars

\* The session once SetAuthorizationKey has returned; the calls are counted
\* from there.
InitKeyed ==
    /\ data = Store(EmptyMap, "model", ModelName)
    /\ key \in Credentials
    /\ readers = 0
    /\ writer = FALSE
    /\ pc = [t \in Threads |-> "idle"]
    /\ arg = [t \in Threads |-> NoArg]
    /\ caller = [t \in Threads |-> "api"]
    /\ messages = [t \in Threads |-> <<>>]
    /\ mapVal = [t \in Threads |-> EmptyMap]
    /\ snap = [t \in Threads |-> EmptyMap]
    /\ res = [t \in Threads |-> NoResponseYet]
    /\ index = [t \in Threads |-> 0]
    /\ ret = [t \in Threads |-> NoResult]
    /\ calls = 0
    /\ owed = [m \in AllMessages |-> 0]
    /\ heap = NoHeap
    /\ view = [t \in Threads |-> NoView]
    /\ outer = [t \in Threads |-> "none"]
    /\ touched = {"model"}

\* Calls that follow one another on a session that has its credential.
SpecSent == InitKeyed /\ [][NextSeq]_vars

\* The goroutines that append and send in the specifications about reading.
Writers == {1}

\* One goroutine appends and sends, and every goroutine reads the history
\* meanwhile, on a session that has its credential.
NextRead ==
    \E t \in Threads :
        \/ t \in Writers /\ AddMessageAsUser(t)
        \/ AM_Load(t)
        \/ AM_Store(t)
        \/ t \in Writers /\ NewChat(t)
        \/ NC_Range(t)
        \/ NC_Marshal(t)
        \/ NC_RoundTrip(t)
        \/ NC_RUnlock(t)
        \/ NC_Fold(t)
        \/ NC_Return(t)
        \/ GetHistoryMessages(t)
        \/ GHM_Load(t)

SpecRead == InitKeyed /\ [][NextRead]_vars

\* The goroutines append, set the temperature and call NewChatText.
NextText ==
    \E t \in Threads :
        \/ SetAuthorizationKey(t)
        \/ SAK_Model(t)
        \/ AddMessageAsUser(t)
        \/ AM_Load(t)
        \/ AM_Store(t)
        \/ SetTemperature(t)
        \/ NewChatText(t)
        \/ NC_Range(t)
        \/ NC_Marshal(t)
        \/ NC_RoundTrip(t)
        \/ NC_RUnlock(t)
        \/ NC_Fold(t)
        \/ NC_Return(t)
        \/ NCT_Return(t)

SpecText == Init /\ [][NextText]_vars

(* ------------------------------ claims -------------------------------- *)

AllIdle == \A t \in Threads : pc[t] = "idle"

Count(seq, m) == Cardinality({i \in 1..Len(seq) : seq[i] = m})

RECURSIVE SumOver(_, _)
SumOver(bag, ms) ==
    IF ms = {} THEN 0
    ELSE LET m == CHOOSE x \in ms : TRUE
         IN  bag[m] + SumOver(bag, ms \ {m})

\* The messages a response's choices stand for, as the loop appends them.
Folded(r) == [i \in 1..Len(r.choices) |-> Message("assistant", r.choices[i])]

\* Goroutine t is inside NewChat, before its loop.
BeforeFold(t) == pc[t] \in {"nc_range", "nc_do", "nc_runlock"}

\* Goroutine t takes this step.
Moves(t) ==
    \/ pc'[t] # pc[t]
    \/ mapVal'[t] # mapVal[t]
    \/ ret'[t] # ret[t]

\* C1: when the decoded response has an empty or absent choices list,
\* NewChat returns the "no response" error and no result, and appends
\* nothing to the history.
C1_EmptyChoicesNoResponse ==
    [][\A t \in Threads :
          (/\ pc[t] = "nc_runlock"
           /\ Moves(t)
           /\ Len(res[t].choices) = 0)
          => (/\ pc'[t] = "idle"
              /\ ret'[t] = Failed("NewChat", ErrNoResponse)
              /\ Hist' = Hist)]_vars

\* C2: NewChat on a session whose credential was never set returns an error
\* to its caller: it does not panic, it changes neither parameters nor
\* history, and it gives the lock back, so that later calls are not blocked.
C2_NoCredentialReturnsError ==
    [][\A t \in Threads :
          (/\ pc[t] = "nc_range"
           /\ pc'[t] # "nc_range"
           /\ key = NilKey)
          => (/\ pc'[t] = "idle"
              /\ ret'[t].err \notin {NoErr, ErrPanic}
              /\ data' = data
              /\ key' = key
              /\ readers' = readers - 1)]_vars

\* Goroutine t has taken its snapshot and has assistant replies left to
\* append.
StillFolding(t) ==
    \/ pc[t] = "nc_runlock" /\ ~ChoicesNil(res[t]) /\ Len(res[t].choices) > 0
    \/ pc[t] = "nc_fold" /\ index[t] < Len(res[t].choices)
    \/ pc[t] \in {"am_load", "am_store"} /\ caller[t] = "fold"

\* C3: between a NewChat call's snapshot and its last appended reply, the
\* history changes only by that call's own appends.
C3_SnapshotAppendAtomic ==
    [][\A t \in Threads :
          (StillFolding(t) /\ Hist' # Hist)
          => (pc[t] = "am_store" /\ caller[t] = "fold" /\ Moves(t))]_vars

\* C4: with no other caller active, a NewChat whose response has k >= 1
\* choices leaves the history as it was when the call began, followed by
\* k assistant messages holding the choices' contents in their order.
C4_FoldAppendsChoices ==
    \A t \in Threads :
        (/\ pc[t] = "nc_fold"
         /\ index[t] = Len(res[t].choices)
         /\ Len(res[t].choices) >= 1)
        => Hist = HistOf(snap[t]) \o Folded(res[t])

C4_Witness ==
    \E t \in Threads :
        /\ pc[t] = "nc_fold"
        /\ index[t] = Len(res[t].choices)
        /\ Len(res[t].choices) = MaxChoices
        /\ Len(HistOf(snap[t])) >= 1
        /\ Len(Hist) = Len(HistOf(snap[t])) + MaxChoices

\* C5: a NewChat call that returns an error has written nothing: it returns
\* from before its loop, and no step it took up to there changed a
\* parameter, the history or the credential.
C5_ErrorLeavesState ==
    [][\A t \in Threads :
          /\ (BeforeFold(t) /\ Moves(t)) => (data' = data /\ key' = key)
          /\ (pc[t] = "idle" /\ pc'[t] = "nc_range")
                => (data' = data /\ key' = key)
          /\ (/\ pc[t] # "idle"
              /\ pc'[t] = "idle"
              /\ ret'[t].op = "NewChat"
              /\ ret'[t].err # NoErr)
             => (BeforeFold(t) /\ index[t] = 0 /\ data' = data /\ key' = key)
      ]_vars

C5_Witness ==
    \E t \in Threads :
        /\ pc[t] = "idle"
        /\ ret[t].op = "NewChat"
        /\ ret[t].err = ErrNoResponse
        /\ Len(Hist) >= 1
        /\ Loaded(data, "model")

\* C6: when the concurrent append calls have all returned, the history has
\* one entry per call and holds each appended message as often as it was
\* appended: no append is lost.
C6_NoLostAppend ==
    AllIdle =>
        /\ Len(Hist) = calls
        /\ \A m \in AllMessages : Count(Hist, m) = owed[m]

C6_Witness ==
    /\ AllIdle
    /\ \A t \in Threads : ret[t].op = "addMessage"
    /\ calls = MaxCalls
    /\ Len(Hist) = MaxCalls

\* C7: when all the concurrent NewChat and append calls have returned, the
\* history holds every appended message and every returned choice exactly
\* once: its length is the number of appends plus the number of choices.
C7_NoReplyLost ==
    AllIdle =>
        /\ \A m \in AllMessages : Count(Hist, m) = owed[m]
        /\ Len(Hist) = SumOver(owed, AllMessages)

\* An append landed between two replies of one NewChat call.
C7_Witness ==
    /\ AllIdle
    /\ \E t, u \in Threads :
          /\ ret[t] = FoldResult(Response(FALSE, <<"X", "Y">>))
          /\ ret[u].op = "addMessage"
    /\ Len(Hist) = 3
    /\ Hist[1] = Message("assistant", "X")
    /\ Hist[2].role = "user"
    /\ Hist[3] = Message("assistant", "Y")

\* C8: the payload NewChat serializes equals the parameters and messages
\* the session held at the instant the snapshot started.
C8_PayloadIsSnapshot ==
    \A t \in Threads : pc[t] = "nc_do" => mapVal[t] = snap[t]

\* C9: every request NewChat hands to the transport has the model key in
\* its payload.
C9_ModelInPayload ==
    \A t \in Threads : pc[t] = "nc_do" => Loaded(mapVal[t], "model")

\* C10: every request body NewChat sends has the key messages, holding the
\* current history (the empty list when nothing was appended yet).
C10_MessagesInPayload ==
    \A t \in Threads :
        pc[t] = "nc_do" =>
            /\ Loaded(mapVal[t], "messages")
            /\ mapVal[t]["messages"] = Hist

ViewValue(t) == Elements(heap, view[t].len)

\* Goroutine t does the load of GetHistoryMessages in this step.
Reads(t) == pc[t] = "ghm_load" /\ pc'[t] # "ghm_load"

\* C13: in every reachable state of the session, the freshly created one
\* included, GetHistoryMessages returns to its caller, and what it returns
\* is the current history (empty when nothing was appended).
C13_HistoryAlwaysReadable ==
    [][\A t \in Threads :
          Reads(t) => (/\ pc'[t] = "idle"
                       /\ ret'[t].err = NoErr
                       /\ view'[t].held
                       /\ ViewValue(t)' = Hist)]_vars

\* C14: what GetHistoryMessages returns is the history of the instant of
\* its load, and it stays what it was: no later append, by a caller or by
\* the loop of NewChat, changes its length or one of its entries.
C14_ReturnedHistoryIsSnapshot ==
    [][\A t \in Threads :
          /\ (Reads(t) /\ ret'[t].err = NoErr)
                => (/\ view'[t].len = Len(Hist)
                    /\ ViewValue(t)' = Hist)
          /\ (view[t].held /\ ~Reads(t))
                => (/\ view'[t].len = view[t].len
                    /\ ViewValue(t)' = ViewValue(t))]_vars

\* A goroutine holds a history of three messages, whose array had room for
\* a fourth, and the fourth has been appended since.
C14_Witness ==
    \E t \in Threads :
        /\ view[t].held
        /\ view[t].len = 3
        /\ Len(Hist) = 4
        /\ ViewValue(t) = SubSeq(Hist, 1, 3)

\* C15: NewChatText runs NewChat once: it starts it when it is called, and
\* when NewChat has returned it returns too, sending nothing again.  It
\* hands on the error NewChat returned, with no text; without an error it
\* returns one content per choice of the response, in the choices' order.
C15_TextOfOneRoundTrip ==
    [][\A t \in Threads :
          /\ (outer'[t] = "NewChatText" /\ pc'[t] = "nc_range")
                => pc[t] \in {"idle", "nc_range"}
          /\ (pc[t] = "nct_ret" /\ Moves(t))
                => (/\ pc'[t] = "idle"
                    /\ ret'[t].op = "NewChatText"
                    /\ ret'[t].err = ret[t].err
                    /\ ret[t].err # NoErr => ret'[t].texts = <<>>
                    /\ ret[t].err = NoErr
                          => (/\ Len(ret'[t].texts) = Len(ret[t].res.choices)
                              /\ \A i \in 1..Len(ret[t].res.choices) :
                                    ret'[t].texts[i] = ret[t].res.choices[i])
                    /\ data' = data
                    /\ readers' = readers
                    /\ calls' = calls)]_vars

\* One NewChatText returned two texts, another one an error.
C15_Witness ==
    \E t, u \in Threads :
        /\ pc[t] = "idle"
        /\ ret[t].op = "NewChatText"
        /\ ret[t].err = NoErr
        /\ ret[t].texts = <<"X", "Y">>
        /\ pc[u] = "idle"
        /\ ret[u].op = "NewChatText"
        /\ ret[u].err = ErrTransport
        /\ ret[u].texts = <<>>

IsPrefix(a, b) == Len(a) <= Len(b) /\ SubSeq(b, 1, Len(a)) = a

\* C16: in every step, whichever goroutine takes it, the history before
\* the step is a prefix of the history after it: entries are added at the
\* tail, and none is removed, moved or rewritten.
C16_HistoryGrowsAtTail == [][IsPrefix(Hist, Hist')]_vars

\* The history holds an appended message between two replies, while a
\* parameter is set.
C16_Witness ==
    /\ Len(Hist) = 3
    /\ Hist[1].role = "assistant"
    /\ Hist[2].role = "system"
    /\ Hist[3].role = "assistant"
    /\ Loaded(data, "model")

\* Goroutine t is inside addMessage, between Lock and Unlock.
Appending(t) == pc[t] \in {"am_load", "am_store"}

\* C17: while a NewChat call is between the start of its snapshot and the
\* end of decoding its response, the history does not change; and a
\* goroutine inside addMessage has no other goroutine inside addMessage or
\* inside that span of NewChat beside it.
C17_AppendsExcluded ==
    [][/\ (\E t \in Threads : BeforeFold(t)) => Hist' = Hist
       /\ \A t, u \in Threads :
             (t # u /\ Appending(t)) => (~Appending(u) /\ ~BeforeFold(u))
       /\ \A t, u \in Threads :
             (t # u /\ Appending(t)')
                => (~Appending(u)' /\ ~BeforeFold(u)')]_vars

\* A request is at the transport, after another goroutine's append.
C17_Witness ==
    \E t, u \in Threads :
        /\ t # u
        /\ pc[t] = "nc_do"
        /\ readers = 1
        /\ pc[u] = "idle"
        /\ ret[u].op = "addMessage"
        /\ Len(Hist) = 1

\* C18: a NewChat call that has replies to append is not stuck at the
\* exclusive lock: with every other goroutine outside of its calls, no
\* read lock is left to wait for (the call's own was released before the
\* loop), so the call goes on and terminates.
C18_FoldNeverStuck ==
    \A t \in Threads :
        (/\ pc[t] = "nc_fold"
         /\ index[t] < Len(res[t].choices)
         /\ \A u \in Threads \ {t} : pc[u] = "idle")
        => CanLock

\* C19: a NewChat call that has returned holds the lock no longer,
\* whichever way it returned: when every goroutine has returned from its
\* calls, the mutex has no reader and no writer, so that the next append or
\* NewChat gets the lock and completes.
C19_NoLockHeldAfterReturn ==
    AllIdle => (readers = 0 /\ ~writer /\ CanLock /\ CanRLock)

\* The step writes value v into the slot and changes nothing else of the
\* session.
Overwrites(slot, v) ==
    /\ DOMAIN data' = DOMAIN data \cup {slot}
    /\ data'[slot] = v
    /\ \A k \in DOMAIN data \ {slot} : data'[k] = data[k]
    /\ key' = key
    /\ Hist' = Hist
    /\ readers' = readers
    /\ writer' = writer

\* C20: each setter writes the given value into its own slot and leaves
\* the other parameters, the credential and the history as they were.
\* SetStopStr and SetStopArr write the same slot, stop, which holds what the
\* later call gave; SetAuthorizationKey writes the credential and then the
\* model slot.
C20_SettersWriteOwnSlot ==
    [][\A t \in Threads :
          /\ SetTemperature(t)
                => \E v \in Temperatures : Overwrites("temperature", v)
          /\ SetTopP(t) => Overwrites("top_p", "0.9")
          /\ SetN(t) => Overwrites("n", 2)
          /\ SetStream(t) => Overwrites("stream", TRUE)
          /\ SetStopStr(t) => Overwrites("stop", <<"string", "s">>)
          /\ SetStopArr(t) => Overwrites("stop", <<"array", "s", "t">>)
          /\ SetMaxTokens(t) => Overwrites("max_tokens", 16)
          /\ SetPresencePenalty(t) => Overwrites("presence_penalty", "0.5")
          /\ SetFrequencyPenalty(t)
                => Overwrites("frequency_penalty", "-0.5")
          /\ SetLogitBias(t) => Overwrites("logit_bias", <<"50256", -100>>)
          /\ SetUser(t) => Overwrites("user", "u1")
          /\ SetAuthorizationKey(t)
                => (key' \in Credentials /\ data' = data)
          /\ SAK_Model(t) => Overwrites("model", "gpt-3.5-turbo")]_vars

\* The credential and the model are set, the stop slot holds a list, and
\* the frequency penalty is set beside them.
C20_Witness ==
    /\ key \in Credentials
    /\ DOMAIN data = {"model", "stop", "frequency_penalty"}
    /\ data["stop"] = <<"array", "s", "t">>
    /\ data["frequency_penalty"] = "-0.5"

====
